---------------------------- MODULE Spec2Model ----------------------------
(***************************************************************************)
(* State-machine model of the RabbitAR hand-tracking application:          *)
(*   src/App.tsx           App: model loading, camera start / switch, the  *)
(*                         predictWebcam detection loop (presence gate,    *)
(*                         pose extraction, viewport projection)           *)
(*   src/unnamed/part_000  HandTrackerGroup.useFrame: the temporal         *)
(*                         smoother, and ARCanvas                          *)
(*                                                                         *)
(* Numbers.  JavaScript numbers are finite-precision; the model keeps      *)
(* that: landmark coordinates are integers in 1/LmUnit, world-space values *)
(* (position, scale, quaternion components) integers in 1/Unit, and every  *)
(* arithmetic result is rounded to the nearest representable value         *)
(* (RoundDiv, SqrtRound), as IEEE-754 does at its own resolution.          *)
(* Direction vectors of the orientation math are kept exact: a normalised  *)
(* vector is represented by the primitive integer vector of the same       *)
(* direction (Normalize), the zero vector by itself, as                    *)
(* THREE.Vector3.normalize() leaves it.                                    *)
(***************************************************************************)
EXTENDS Integers, Sequences, FiniteSets, TLC

VARIABLES
    appState,             \* App.tsx:12   React state appState
    handLandmarkerRef,    \* App.tsx:26   "null" | "loaded"
    initMediapipe,        \* App.tsx:45   "pending" | "settled" (the async call)
    facingModeRef,        \* App.tsx:37-38 facingMode / facingModeRef
    timers,               \* App.tsx:147  pending setTimeout(startCamera) callbacks
    gumSpecific,          \* App.tsx:97   startCamera calls awaiting getUserMedia(facingMode)
    gumFallback,          \* App.tsx:110  startCamera calls awaiting getUserMedia({video:true})
    video,                \* App.tsx:360  the <video> element's stage
    rafPending,           \* App.tsx:161,319 requestAnimationFrame(predictWebcam) not yet run
    now,                  \* performance.now(), in ms
    aspect,               \* App.tsx:222  window.innerWidth / window.innerHeight
    lastDetectionTimeRef, \* App.tsx:30
    isHandDetectedRef,    \* App.tsx:24
    isHandDetected,       \* App.tsx:22
    hand,                 \* the hand in front of the camera: NoHand or its landmark set
    lastCycle,            \* outcome of the step just taken, if it ran predictWebcam
    handPositionRef,      \* App.tsx:16
    handScaleRef,         \* App.tsx:18
    handRotationRef,      \* App.tsx:20
    group,                \* part_000:122 HandTrackerGroup's THREE.Group (the SmoothedPose)
    lastTick              \* the group's pose before the latest useFrame callback

vars == <<appState, handLandmarkerRef, initMediapipe, facingModeRef, timers,
          gumSpecific, gumFallback, video, rafPending, now, aspect,
          lastDetectionTimeRef, isHandDetectedRef, isHandDetected, hand,
          lastCycle, handPositionRef, handScaleRef, handRotationRef, group,
          lastTick>>

---------------------------------------------------------------------------
(* Arithmetic *)

\* World-space values are kept to 1/Unit.
Unit == 1000
\* Landmark coordinates are kept to 1/LmUnit (HandLandmark.x, .y, .z).
LmUnit == 100

Abs(n) == IF n < 0 THEN -n ELSE n

Max(a, b) == IF a >= b THEN a ELSE b

\* n / d rounded to the nearest integer, ties to even (d > 0).
RoundDiv(n, d) ==
    LET q == n \div d
        r == n % d
    IN  IF 2 * r < d THEN q
        ELSE IF 2 * r > d THEN q + 1
        ELSE IF q % 2 = 0 THEN q ELSE q + 1

RECURSIVE SqrtIter(_, _, _)
SqrtIter(n, lo, hi) ==
    IF lo >= hi THEN lo
    ELSE LET mid == (lo + hi + 1) \div 2
         IN  IF mid * mid <= n THEN SqrtIter(n, mid, hi)
             ELSE SqrtIter(n, lo, mid - 1)

\* Math.sqrt on integers: the nearest integer to the square root of n >= 0.
SqrtRound(n) ==
    LET s == SqrtIter(n, 0, IF n < 46340 THEN n ELSE 46340)
    IN  IF n - s * s > s THEN s + 1 ELSE s

RECURSIVE Gcd(_, _)
Gcd(a, b) == IF b = 0 THEN a ELSE Gcd(b, a % b)

---------------------------------------------------------------------------
(* THREE.Vector3 *)

Vec(a, b, c) == [x |-> a, y |-> b, z |-> c]

ZeroVec == Vec(0, 0, 0)

SubVectors(a, b) == Vec(a.x - b.x, a.y - b.y, a.z - b.z)

CrossVectors(a, b) ==
    Vec(a.y * b.z - a.z * b.y, a.z * b.x - a.x * b.z, a.x * b.y - a.y * b.x)

Dot(a, b) == a.x * b.x + a.y * b.y + a.z * b.z

Negate(v) == Vec(-v.x, -v.y, -v.z)

\* Vector3.normalize(): divideScalar(length() || 1).  The zero vector stays
\* zero; any other vector becomes the unit vector of its direction, which is
\* represented by the primitive integer vector of that direction.
Normalize(v) ==
    IF v = ZeroVec THEN v
    ELSE LET g == Gcd(Gcd(Abs(v.x), Abs(v.y)), Abs(v.z))
         IN  Vec(v.x \div g, v.y \div g, v.z \div g)

\* Length 1 or not, for a vector that went through Normalize.
IsUnit(v) == v # ZeroVec

\* The numeric value (in 1/Unit) of a vector that went through Normalize.
UnitValue(v) ==
    IF v = ZeroVec THEN v
    ELSE LET m == Max(Max(Abs(v.x), Abs(v.y)), Abs(v.z))
             up == IF m < 1000 THEN 5000 \div m ELSE 1
             dn == IF m > 10000 THEN m \div 5000 ELSE 1
             s == Vec((v.x * up) \div dn, (v.y * up) \div dn, (v.z * up) \div dn)
             len == SqrtRound(Dot(s, s))
         IN  Vec(RoundDiv(Unit * s.x, len), RoundDiv(Unit * s.y, len),
                 RoundDiv(Unit * s.z, len))

\* Vector3.lerp(v, alpha): this.x += (v.x - this.x) * alpha, per component;
\* alpha is given in percent.
LerpScalarOvershoot(a, b, pct) == a + RoundDiv((b - a) * (200 + pct), 100)

LerpScalarFrozen(a, b, pct) == a

LerpScalar(a, b, pct) == a + RoundDiv((b - a) * pct, 100)

Lerp(v, target, pct) ==
    Vec(LerpScalar(v.x, target.x, pct), LerpScalar(v.y, target.y, pct),
        LerpScalar(v.z, target.z, pct))

---------------------------------------------------------------------------
(* THREE.Quaternion, components in 1/Unit *)

Quat(a, b, c, d) == [x |-> a, y |-> b, z |-> c, w |-> d]

\* new THREE.Quaternion()
IdentityQuat == Quat(0, 0, 0, Unit)

\* Math.sqrt of a value in 1/Unit, result in 1/Unit.
SqrtUnit(v) == SqrtRound(v * Unit)

\* Matrix4.makeBasis(X, Y, Z) then Quaternion.setFromRotationMatrix(m):
\* the columns of the matrix are the three axes.
SetFromRotationMatrix(X, Y, Z) ==
    LET m11 == X.x  m21 == X.y  m31 == X.z
        m12 == Y.x  m22 == Y.y  m32 == Y.z
        m13 == Z.x  m23 == Z.y  m33 == Z.z
        trace == m11 + m22 + m33
    IN  IF trace > 0 THEN
            LET r == SqrtUnit(trace + Unit)          \* s = 0.5 / r
            IN  Quat(RoundDiv((m32 - m23) * Unit, 2 * r),
                     RoundDiv((m13 - m31) * Unit, 2 * r),
                     RoundDiv((m21 - m12) * Unit, 2 * r),
                     RoundDiv(r, 2))
        ELSE IF m11 > m22 /\ m11 > m33 THEN
            LET r == SqrtUnit(Unit + m11 - m22 - m33)  \* s = 2 * r
            IN  Quat(RoundDiv(r, 2),
                     RoundDiv((m12 + m21) * Unit, 2 * r),
                     RoundDiv((m13 + m31) * Unit, 2 * r),
                     RoundDiv((m32 - m23) * Unit, 2 * r))
        ELSE IF m22 > m33 THEN
            LET r == SqrtUnit(Unit + m22 - m11 - m33)
            IN  Quat(RoundDiv((m12 + m21) * Unit, 2 * r),
                     RoundDiv(r, 2),
                     RoundDiv((m23 + m32) * Unit, 2 * r),
                     RoundDiv((m13 - m31) * Unit, 2 * r))
        ELSE
            LET r == SqrtUnit(Unit + m33 - m11 - m22)
            IN  Quat(RoundDiv((m13 + m31) * Unit, 2 * r),
                     RoundDiv((m23 + m32) * Unit, 2 * r),
                     RoundDiv(r, 2),
                     RoundDiv((m21 - m12) * Unit, 2 * r))

QuatDot(a, b) == a.x * b.x + a.y * b.y + a.z * b.z + a.w * b.w

\* Quaternion.normalize(): a zero quaternion becomes the identity.
QuatNormalize(q) ==
    LET len == SqrtRound(QuatDot(q, q))
    IN  IF len = 0 THEN IdentityQuat
        ELSE Quat(RoundDiv(q.x * Unit, len), RoundDiv(q.y * Unit, len),
                  RoundDiv(q.z * Unit, len), RoundDiv(q.w * Unit, len))

\* Quaternion.slerp(qb, t), t in percent.  three.js: take the shorter arc
\* (negate qb when the dot product is negative); return this unchanged when
\* cosHalfTheta >= 1; otherwise blend along the arc.  The blend is the
\* normalised linear one, which three.js itself uses when the two are close
\* (sqrSinHalfTheta <= Number.EPSILON); its trigonometric branch yields a
\* point of the same arc.
Slerp(q, qb, pct) ==
    LET d == QuatDot(q, qb)
        b == IF d < 0 THEN Quat(-qb.x, -qb.y, -qb.z, -qb.w) ELSE qb
        cosHalfTheta == RoundDiv(Abs(d), Unit)
    IN  IF cosHalfTheta >= Unit THEN q
        ELSE QuatNormalize(Quat(LerpScalar(q.x, b.x, pct), LerpScalar(q.y, b.y, pct),
                                LerpScalar(q.z, b.z, pct), LerpScalar(q.w, b.w, pct)))

---------------------------------------------------------------------------
(* predictWebcam, lines 182-301: pose of one landmark set.                 *)
(* A landmark set is the four landmarks the code reads (indices 0, 9, 5,   *)
(* 17), each a Vec in 1/LmUnit.  An aspect is the ratio num / den.         *)

ratio == 0              \* const ratio
distance == 5           \* const distance (camera Z)
TanHalfVFov == 466308   \* Math.tan(vFov / 2), fov = 50 degrees, in 1e-6
scaleMultiplier == 12   \* const scaleMultiplier
PlacementDepth == -10   \* the fixed z of the world position

\* Lines 195-208: xCoord3D and the Y of the device-space vector, in 1/LmUnit.
XCoord3D(lm, isMirrored) ==
    LET palmX == lm.wrist.x * (1 - ratio) + lm.middleFingerMCP.x * ratio
    IN  IF isMirrored THEN (LmUnit - palmX) * 2 - LmUnit
        ELSE palmX * 2 - LmUnit

YCoord3D(lm) ==
    LET palmY == lm.wrist.y * (1 - ratio) + lm.middleFingerMCP.y * ratio
    IN  -(palmY * 2 - LmUnit) + LmUnit

\* Lines 218-223: visible world height and width at the reference depth.
ViewHeight == RoundDiv(2 * TanHalfVFov * distance, 1000)

ViewWidth(asp) == RoundDiv(ViewHeight * asp.num, asp.den)

\* Lines 211-228: the world position written to handPositionRef.
HandPosition(lm, isMirrored, asp) ==
    Vec(RoundDiv(XCoord3D(lm, isMirrored) * ViewWidth(asp), 2 * LmUnit),
        RoundDiv(YCoord3D(lm) * ViewHeight, 2 * LmUnit),
        PlacementDepth * Unit)

\* Lines 232-234, squared and in 1/LmUnit^2: dx * dx + dy * dy.
HandSizeSq3D(lm) ==
    LET dx == lm.wrist.x - lm.middleFingerMCP.x
        dy == lm.wrist.y - lm.middleFingerMCP.y
        dz == lm.wrist.z - lm.middleFingerMCP.z
    IN  dx * dx + dy * dy + dz * dz

HandSizeSq(lm) ==
    LET dx == lm.wrist.x - lm.middleFingerMCP.x
        dy == lm.wrist.y - lm.middleFingerMCP.y
    IN  dx * dx + dy * dy

\* Lines 234-238: handSize = Math.sqrt(...), kept to 1e-4 (with LmUnit = 100,
\* sqrt(sq) / LmUnit = sqrt(sq * 10000) / 10000), times the multiplier.
TargetScale(lm) ==
    LET handSize == SqrtRound(HandSizeSq(lm) * 10000)
    IN  RoundDiv(handSize * scaleMultiplier * Unit, 10000)

\* Lines 244-253: getVector, scaled by LmUnit * asp.den to stay exact.
GetVector(point, isMirrored, asp) ==
    LET xVal == IF isMirrored THEN LmUnit - point.x ELSE point.x
        zVal == -point.z
    IN  Vec(xVal * asp.num, -point.y * asp.den, zVal * asp.num)

\* Line 278: flatForward.lengthSq() < 0.01, for a vector scaled as GetVector's.
\* (BelowFallbackLength compares the length, not its square, with 0.01.)
BelowFallbackLength(v, asp) ==
    Dot(v, v) * 10000 < (LmUnit * asp.den) * (LmUnit * asp.den)

BelowFallbackThreshold(v, asp) ==
    Dot(v, v) * 100 < (LmUnit * asp.den) * (LmUnit * asp.den)

\* Lines 255-295: the orientation vectors and the basis.
Orientation(lm, isMirrored, asp) ==
    LET vWrist == GetVector(lm.wrist, isMirrored, asp)
        vMiddle == GetVector(lm.middleFingerMCP, isMirrored, asp)
        vIndex == GetVector(lm.indexFingerMCP, isMirrored, asp)
        vPinky == GetVector(lm.pinkyFingerMCP, isMirrored, asp)
        vecToUser == SubVectors(vWrist, vMiddle)
        palmAcross == Normalize(SubVectors(vPinky, vIndex))
        fingerDir == Normalize(SubVectors(vMiddle, vWrist))
        crossed == Normalize(CrossVectors(palmAcross, fingerDir))
        palmNormal == IF crossed.z < 0 THEN Negate(crossed) ELSE crossed
        projected == Vec(vecToUser.x, 0, vecToUser.z)
        fallback == BelowFallbackThreshold(projected, asp)
        flatForward == Normalize(IF fallback THEN Vec(palmNormal.x, 0, palmNormal.z)
                                 ELSE projected)
        targetY == Vec(0, 1, 0)
        targetX == Normalize(CrossVectors(targetY, flatForward))
        targetZ == Normalize(CrossVectors(targetX, targetY))
    IN  [palmAcross |-> palmAcross, fingerDir |-> fingerDir,
         palmNormal |-> palmNormal, fallback |-> fallback,
         flatForward |-> flatForward,
         targetX |-> targetX, targetY |-> targetY, targetZ |-> targetZ]

\* Lines 298-299: makeBasis and setFromRotationMatrix.
TargetQuaternion(lm, isMirrored, asp) ==
    LET o == Orientation(lm, isMirrored, asp)
    IN  SetFromRotationMatrix(UnitValue(o.targetX), UnitValue(o.targetY),
                              UnitValue(o.targetZ))

\* Lines 228, 240, 301: what one landmark set writes to the three refs.
RawPose(lm, isMirrored, asp) ==
    [position |-> HandPosition(lm, isMirrored, asp),
     scale |-> LET t == TargetScale(lm) IN Vec(t, t, t),
     rotation |-> TargetQuaternion(lm, isMirrored, asp)]

---------------------------------------------------------------------------
(* Bounds and input sets *)

MaxTime == 100      \* the clock stops advancing here
ClockStep == 50     \* ms added by one AdvanceClock step
MaxLoops == 2       \* 'playing' is not delivered with this many callbacks pending
MaxStarts == 1      \* startCamera calls scheduled or in flight
MaxFrames == 1      \* useFrame callbacks run on one mounted group

Lm(w, m, i, p) ==
    [wrist |-> w, middleFingerMCP |-> m, indexFingerMCP |-> i, pinkyFingerMCP |-> p]

\* The landmark set of the end-to-end scenario: a raised, vertical hand.
ScenarioHand ==
    Lm(Vec(50, 50, 0), Vec(50, 40, 5), Vec(45, 42, 5), Vec(55, 42, 5))

\* All four landmarks coincident.
CoincidentHand ==
    Lm(Vec(50, 60, 0), Vec(50, 60, 0), Vec(50, 60, 0), Vec(50, 60, 0))

\* result.landmarks of the detector: no hand, or one landmark set.
NoHand == <<>>

Hands == {NoHand, <<ScenarioHand>>, <<CoincidentHand>>}

SquareWindow == [num |-> 1, den |-> 1]

Aspects == {SquareWindow, [num |-> 3, den |-> 2]}

\* The landmark sets of the pose specification: every combination of these.
WristPoints == {Vec(50, 50, 0), Vec(30, 50, 0)}
MiddlePoints == {Vec(a, b, c) : a \in {45, 50}, b \in {40, 50}, c \in {0, 5}}
IndexPoints == {Vec(a, b, c) : a \in {45, 50}, b \in {42, 50}, c \in {0, 5}}
PinkyPoints == {Vec(a, b, c) : a \in {50, 55}, b \in {42, 50}, c \in {0, 5}}

LandmarkGrid ==
    {Lm(w, m, i, p) : w \in WristPoints, m \in MiddlePoints,
                      i \in IndexPoints, p \in PinkyPoints}

---------------------------------------------------------------------------
(* The group of HandTrackerGroup: the SmoothedPose *)

\* A new THREE.Group: position (0,0,0), scale (1,1,1), identity quaternion.
\* (DefaultPoseCollapsed: a group that starts at scale 0.)
DefaultPoseCollapsed ==
    [position |-> ZeroVec, scale |-> ZeroVec,
     quaternion |-> IdentityQuat, frames |-> 0]

DefaultPose ==
    [position |-> ZeroVec, scale |-> Vec(Unit, Unit, Unit),
     quaternion |-> IdentityQuat, frames |-> 0]

positionLerp == 20      \* position.lerp(..., 0.2), in percent
scaleLerp == 10         \* scale.lerp(..., 0.1)
rotationSlerp == 15     \* quaternion.slerp(..., 0.15)

\* part_000:124-137, the useFrame callback applied to a mounted group.
Smooth(g, positionTarget, scaleTarget, rotationTarget) ==
    [position |-> Lerp(g.position, positionTarget, positionLerp),
     scale |-> Lerp(g.scale, scaleTarget, scaleLerp),
     quaternion |-> Slerp(g.quaternion, rotationTarget, rotationSlerp),
     frames |-> g.frames + 1]

\* App.tsx:375-383: <ARCanvas> is rendered only while appState is RUNNING.
\* Leaving RUNNING unmounts it (the group is gone); entering RUNNING mounts
\* a new group.
Rendered(newAppState, g) ==
    IF newAppState = "RUNNING"
    THEN (IF g = <<>> THEN <<DefaultPose>> ELSE g)
    ELSE <<>>

---------------------------------------------------------------------------
(* The <video> element.  Stages:                                           *)
(*   empty     srcObject null: videoWidth = 0, currentTime = 0             *)
(*   attached  srcObject set, play() called: videoWidth = 0                *)
(*   metadata  videoWidth > 0, currentTime = 0, 'playing' about to fire    *)
(*   playing   'playing' delivered, currentTime still 0                    *)
(*   advanced  currentTime > 0                                             *)

HasDimensions(stage) == stage \notin {"empty", "attached"}

TimelineAlwaysAdvanced(stage) == TRUE

TimelineAdvanced(stage) == stage = "advanced"

\* A play() promise still pending is rejected (AbortError) when srcObject is
\* assigned; the catch of the startCamera that awaits it (lines 129-135)
\* sets ERROR.
PlayPending(stage) == stage \in {"attached", "metadata"}

---------------------------------------------------------------------------
(* predictWebcam, App.tsx:153-320 *)

HysteresisMs == 50      \* if (timeSinceLastDetect > 50)

\* Lines 305-311: the presence flag after a cycle that found no hand.
HandLostEager(detected, t, last) ==
    IF detected /\ t - last >= HysteresisMs THEN FALSE ELSE detected

HandLostNever(detected, t, last) == detected

HandLost(detected, t, last) ==
    IF detected /\ t - last > HysteresisMs THEN FALSE ELSE detected

\* Lines 176-180: the presence flag after a cycle that found a hand.
HandFoundDebounced(detected, t, last) ==
    IF detected THEN TRUE ELSE t - last <= HysteresisMs

HandFound(detected, t, last) == TRUE

\* What detectForVideo can do with the hand in view: report it, miss it
\* (or there is none), or throw.
Outcomes == {"hand", "nohand", "throw"}

\* One invocation.  pending: the callbacks still scheduled when it starts;
\* stage: the video's stage as the invocation sees it.
PredictWebcam(pending, stage, outcome) ==
    IF handLandmarkerRef = "null" THEN
        \* line 157: return, nothing scheduled
        /\ rafPending' = pending
        /\ lastCycle' = "nolandmarker"
        /\ UNCHANGED <<lastDetectionTimeRef, isHandDetectedRef, isHandDetected,
                       handPositionRef, handScaleRef, handRotationRef>>
    ELSE IF ~HasDimensions(stage) THEN
        \* lines 160-163
        /\ rafPending' = pending + 1
        /\ lastCycle' = "nodims"
        /\ UNCHANGED <<lastDetectionTimeRef, isHandDetectedRef, isHandDetected,
                       handPositionRef, handScaleRef, handRotationRef>>
    ELSE IF ~TimelineAdvanced(stage) THEN
        \* line 168 false, line 319
        /\ rafPending' = pending + 1
        /\ lastCycle' = "stale"
        /\ UNCHANGED <<lastDetectionTimeRef, isHandDetectedRef, isHandDetected,
                       handPositionRef, handScaleRef, handRotationRef>>
    ELSE IF outcome = "hand" /\ hand # NoHand THEN
        \* lines 172-301
        LET pose == RawPose(hand[1], facingModeRef = "user", aspect)
        IN  /\ lastDetectionTimeRef' = now
            /\ isHandDetectedRef' = HandFound(isHandDetectedRef, now, lastDetectionTimeRef)
            /\ isHandDetected' =
                   (IF ~isHandDetectedRef
                    THEN HandFound(isHandDetectedRef, now, lastDetectionTimeRef)
                    ELSE isHandDetected)
            /\ handPositionRef' = pose.position
            /\ handScaleRef' = pose.scale
            /\ handRotationRef' = pose.rotation
            /\ rafPending' = pending + 1
            /\ lastCycle' = "hand"
    ELSE IF outcome = "throw" THEN
        \* lines 314-316: the catch only logs
        /\ rafPending' = pending + 1
        /\ lastCycle' = "throw"
        /\ UNCHANGED <<lastDetectionTimeRef, isHandDetectedRef, isHandDetected,
                       handPositionRef, handScaleRef, handRotationRef>>
    ELSE
        \* lines 303-313
        /\ isHandDetectedRef' = HandLost(isHandDetectedRef, now, lastDetectionTimeRef)
        /\ isHandDetected' =
               (IF HandLost(isHandDetectedRef, now, lastDetectionTimeRef) # isHandDetectedRef
                THEN FALSE ELSE isHandDetected)
        /\ rafPending' = pending + 1
        /\ lastCycle' = "nohand"
        /\ UNCHANGED <<lastDetectionTimeRef, handPositionRef, handScaleRef,
                       handRotationRef>>

\* A scheduled requestAnimationFrame callback runs, detectForVideo (if it is
\* reached) doing what outcome says.
DetectionCycle(outcome) ==
    /\ rafPending > 0
    /\ PredictWebcam(rafPending - 1, video, outcome)
    /\ UNCHANGED <<appState, handLandmarkerRef, initMediapipe, facingModeRef,
                   timers, gumSpecific, gumFallback, video, now, aspect, hand,
                   group>>
    /\ lastTick' = <<>>

\* A scheduled requestAnimationFrame callback runs.
AnimationFrame == \E outcome \in Outcomes : DetectionCycle(outcome)

---------------------------------------------------------------------------
(* App: model loading and camera *)

\* startCamera up to its first await (lines 84-97): stop the old stream,
\* clear srcObject, request the camera.  Returns the new appState: a play()
\* still pending on the old stream is aborted.
StartCameraBegins(state) ==
    /\ video' = "empty"
    /\ gumSpecific' = gumSpecific + 1
    /\ appState' = (IF PlayPending(video) THEN "ERROR" ELSE state)
    /\ group' = Rendered(appState', group)

\* startCamera after getUserMedia resolved (lines 115-127): attach the
\* stream, set onplaying, call play().
StreamAttached ==
    /\ video' = "attached"
    /\ appState' = (IF PlayPending(video) THEN "ERROR" ELSE appState)
    /\ group' = Rendered(appState', group)

\* initMediapipe resolves (lines 47-64); the effect of lines 77-82 then
\* calls startCamera.
InitMediapipeResolves ==
    /\ initMediapipe = "pending"
    /\ initMediapipe' = "settled"
    /\ handLandmarkerRef' = "loaded"
    /\ StartCameraBegins("REQUESTING_PERMISSION")
    /\ lastCycle' = "none"
    /\ UNCHANGED <<facingModeRef, timers, gumFallback, rafPending, now, aspect,
                   lastDetectionTimeRef, isHandDetectedRef, isHandDetected, hand,
                   handPositionRef, handScaleRef, handRotationRef>>
    /\ lastTick' = <<>>

\* initMediapipe rejects (lines 65-70).
InitMediapipeRejects ==
    /\ initMediapipe = "pending"
    /\ initMediapipe' = "settled"
    /\ appState' = "ERROR"
    /\ group' = Rendered(appState', group)
    /\ lastCycle' = "none"
    /\ UNCHANGED <<handLandmarkerRef, facingModeRef, timers, gumSpecific,
                   gumFallback, video, rafPending, now, aspect,
                   lastDetectionTimeRef, isHandDetectedRef, isHandDetected, hand,
                   handPositionRef, handScaleRef, handRotationRef>>
    /\ lastTick' = <<>>

\* toggleCamera (lines 138-150), the Switch Camera button.
ToggleCamera ==
    /\ timers + gumSpecific + gumFallback < MaxStarts
    /\ facingModeRef' = (IF facingModeRef = "user" THEN "environment" ELSE "user")
    /\ appState' = "LOADING_MODEL"
    /\ group' = Rendered(appState', group)
    /\ timers' = timers + 1
    /\ lastCycle' = "none"
    /\ UNCHANGED <<handLandmarkerRef, initMediapipe, gumSpecific, gumFallback,
                   video, rafPending, now, aspect, lastDetectionTimeRef,
                   isHandDetectedRef, isHandDetected, hand, handPositionRef,
                   handScaleRef, handRotationRef>>
    /\ lastTick' = <<>>

\* The setTimeout callback of toggleCamera (lines 147-149): startCamera().
TimerFires ==
    /\ timers > 0
    /\ timers' = timers - 1
    /\ StartCameraBegins(appState)
    /\ lastCycle' = "none"
    /\ UNCHANGED <<handLandmarkerRef, initMediapipe, facingModeRef, gumFallback,
                   rafPending, now, aspect, lastDetectionTimeRef,
                   isHandDetectedRef, isHandDetected, hand, handPositionRef,
                   handScaleRef, handRotationRef>>
    /\ lastTick' = <<>>

\* getUserMedia with the facing mode resolves (lines 97-103, 115-127).
CameraGranted ==
    /\ gumSpecific > 0
    /\ gumSpecific' = gumSpecific - 1
    /\ StreamAttached
    /\ lastCycle' = "none"
    /\ UNCHANGED <<handLandmarkerRef, initMediapipe, facingModeRef, timers,
                   gumFallback, rafPending, now, aspect, lastDetectionTimeRef,
                   isHandDetectedRef, isHandDetected, hand, handPositionRef,
                   handScaleRef, handRotationRef>>
    /\ lastTick' = <<>>

\* getUserMedia with the facing mode rejects: the fallback request (104-113).
CameraRefused ==
    /\ gumSpecific > 0
    /\ gumSpecific' = gumSpecific - 1
    /\ gumFallback' = gumFallback + 1
    /\ lastCycle' = "none"
    /\ UNCHANGED <<appState, handLandmarkerRef, initMediapipe, facingModeRef,
                   timers, video, rafPending, now, aspect, lastDetectionTimeRef,
                   isHandDetectedRef, isHandDetected, hand, handPositionRef,
                   handScaleRef, handRotationRef, group>>
    /\ lastTick' = <<>>

\* The fallback getUserMedia resolves.
FallbackGranted ==
    /\ gumFallback > 0
    /\ gumFallback' = gumFallback - 1
    /\ StreamAttached
    /\ lastCycle' = "none"
    /\ UNCHANGED <<handLandmarkerRef, initMediapipe, facingModeRef, timers,
                   gumSpecific, rafPending, now, aspect, lastDetectionTimeRef,
                   isHandDetectedRef, isHandDetected, hand, handPositionRef,
                   handScaleRef, handRotationRef>>
    /\ lastTick' = <<>>

\* The fallback getUserMedia rejects: the outer catch (lines 129-135).
FallbackRefused ==
    /\ gumFallback > 0
    /\ gumFallback' = gumFallback - 1
    /\ appState' = "ERROR"
    /\ group' = Rendered(appState', group)
    /\ lastCycle' = "none"
    /\ UNCHANGED <<handLandmarkerRef, initMediapipe, facingModeRef, timers,
                   gumSpecific, video, rafPending, now, aspect,
                   lastDetectionTimeRef, isHandDetectedRef, isHandDetected, hand,
                   handPositionRef, handScaleRef, handRotationRef>>
    /\ lastTick' = <<>>

\* The stream's first frame arrives: videoWidth and videoHeight are set.
VideoLoadedMetadata ==
    /\ video = "attached"
    /\ video' = "metadata"
    /\ lastCycle' = "none"
    /\ UNCHANGED <<appState, handLandmarkerRef, initMediapipe, facingModeRef,
                   timers, gumSpecific, gumFallback, rafPending, now, aspect,
                   lastDetectionTimeRef, isHandDetectedRef, isHandDetected, hand,
                   handPositionRef, handScaleRef, handRotationRef, group>>
    /\ lastTick' = <<>>

\* The 'playing' event: the onplaying handler of lines 120-125, which sets
\* RUNNING and calls predictWebcam().  currentTime may or may not have
\* advanced when the handler runs.
VideoPlaying ==
    /\ video = "metadata"
    /\ rafPending < MaxLoops
    /\ video' \in {"playing", "advanced"}
    /\ appState' = "RUNNING"
    /\ group' = Rendered(appState', group)
    /\ \E outcome \in Outcomes : PredictWebcam(rafPending, video', outcome)
    /\ UNCHANGED <<handLandmarkerRef, initMediapipe, facingModeRef, timers,
                   gumSpecific, gumFallback, now, aspect, hand>>
    /\ lastTick' = <<>>

\* Playback advances: currentTime > 0.
VideoTimeAdvances ==
    /\ video = "playing"
    /\ video' = "advanced"
    /\ lastCycle' = "none"
    /\ UNCHANGED <<appState, handLandmarkerRef, initMediapipe, facingModeRef,
                   timers, gumSpecific, gumFallback, rafPending, now, aspect,
                   lastDetectionTimeRef, isHandDetectedRef, isHandDetected, hand,
                   handPositionRef, handScaleRef, handRotationRef, group>>
    /\ lastTick' = <<>>

---------------------------------------------------------------------------
(* Environment *)

AdvanceClock ==
    /\ now + ClockStep <= MaxTime
    /\ now' = now + ClockStep
    /\ lastCycle' = "none"
    /\ UNCHANGED <<appState, handLandmarkerRef, initMediapipe, facingModeRef,
                   timers, gumSpecific, gumFallback, video, rafPending, aspect,
                   lastDetectionTimeRef, isHandDetectedRef, isHandDetected, hand,
                   handPositionRef, handScaleRef, handRotationRef, group>>
    /\ lastTick' = <<>>

HandMoves ==
    /\ \E h \in Hands \ {hand} : hand' = h
    /\ lastCycle' = "none"
    /\ UNCHANGED <<appState, handLandmarkerRef, initMediapipe, facingModeRef,
                   timers, gumSpecific, gumFallback, video, rafPending, now, aspect,
                   lastDetectionTimeRef, isHandDetectedRef, isHandDetected,
                   handPositionRef, handScaleRef, handRotationRef, group>>
    /\ lastTick' = <<>>

---------------------------------------------------------------------------
(* HandTrackerGroup, part_000:121-144 *)

\* The useFrame callback: one display frame of the mounted group.
UseFrame ==
    /\ group # <<>>
    /\ group[1].frames < MaxFrames
    /\ lastTick' = <<group[1]>>
    /\ group' = <<Smooth(group[1], handPositionRef, handScaleRef, handRotationRef)>>
    /\ lastCycle' = "none"
    /\ UNCHANGED <<appState, handLandmarkerRef, initMediapipe, facingModeRef,
                   timers, gumSpecific, gumFallback, video, rafPending, now, aspect,
                   lastDetectionTimeRef, isHandDetectedRef, isHandDetected, hand,
                   handPositionRef, handScaleRef, handRotationRef>>

---------------------------------------------------------------------------
(* The application *)

Init ==
    /\ appState = "LOADING_MODEL"
    /\ handLandmarkerRef = "null"
    /\ initMediapipe = "pending"
    /\ facingModeRef = "user"
    /\ timers = 0
    /\ gumSpecific = 0
    /\ gumFallback = 0
    /\ video = "empty"
    /\ rafPending = 0
    /\ now = 0
    /\ aspect = SquareWindow
    /\ lastDetectionTimeRef = 0
    /\ isHandDetectedRef = FALSE
    /\ isHandDetected = FALSE
    /\ hand = NoHand
    /\ lastCycle = "none"
    /\ handPositionRef = ZeroVec
    /\ handScaleRef = Vec(Unit, Unit, Unit)
    /\ handRotationRef = IdentityQuat
    /\ group = <<>>
    /\ lastTick = <<>>

Next ==
    \/ InitMediapipeResolves
    \/ InitMediapipeRejects
    \/ ToggleCamera
    \/ TimerFires
    \/ CameraGranted
    \/ CameraRefused
    \/ FallbackGranted
    \/ FallbackRefused
    \/ VideoLoadedMetadata
    \/ VideoPlaying
    \/ VideoTimeAdvances
    \/ AnimationFrame
    \/ AdvanceClock
    \/ HandMoves
    \/ UseFrame

Spec == Init /\ [][Next]_vars

---------------------------------------------------------------------------
(* The pose computation on its own: the application running with a hand    *)
(* from LandmarkGrid in view, in either facing mode and window shape; the  *)
(* only steps are detection cycles.                                        *)

Running ==
    /\ appState = "RUNNING"
    /\ handLandmarkerRef = "loaded"
    /\ initMediapipe = "settled"
    /\ timers = 0
    /\ gumSpecific = 0
    /\ gumFallback = 0
    /\ video = "advanced"
    /\ rafPending = 1
    /\ now = 0
    /\ lastDetectionTimeRef = 0
    /\ isHandDetectedRef = FALSE
    /\ isHandDetected = FALSE
    /\ lastCycle = "none"
    /\ lastTick = <<>>

PoseInit ==
    /\ Running
    /\ facingModeRef \in {"user", "environment"}
    /\ aspect \in Aspects
    /\ hand \in {<<lm>> : lm \in LandmarkGrid}
    /\ handPositionRef = ZeroVec
    /\ handScaleRef = Vec(Unit, Unit, Unit)
    /\ handRotationRef = IdentityQuat
    /\ group = <<DefaultPose>>

PoseNext == AnimationFrame

SpecPose == PoseInit /\ [][PoseNext]_vars

---------------------------------------------------------------------------
(* The smoother on its own: a mounted group within SmoothRange (in 1/Unit) *)
(* of a raw pose that stays the target; the only steps are display frames. *)

SmoothRange == 4

\* The refs as the application starts with them, and after the scenario hand.
SteadyTargets ==
    {[position |-> ZeroVec, scale |-> Vec(Unit, Unit, Unit), rotation |-> IdentityQuat],
     RawPose(ScenarioHand, FALSE, SquareWindow)}

SmoothInit ==
    /\ Running
    /\ facingModeRef = "environment"
    /\ aspect = SquareWindow
    /\ hand = NoHand
    /\ \E t \in SteadyTargets :
          /\ handPositionRef = t.position
          /\ handScaleRef = t.scale
          /\ handRotationRef = t.rotation
          /\ \E dx \in -SmoothRange .. SmoothRange, dy \in {0, SmoothRange},
                ds \in -(2 * SmoothRange) .. 2 * SmoothRange :
                group = <<[position |-> Vec(t.position.x + dx, t.position.y + dy,
                                            t.position.z),
                           scale |-> Vec(t.scale.x + ds, t.scale.y + ds, t.scale.z + ds),
                           quaternion |-> t.rotation,
                           frames |-> 0]>>

SmoothNext == UseFrame

SpecSmooth == SmoothInit /\ [][SmoothNext]_vars

---------------------------------------------------------------------------
(* A hand-lost period on its own: the application running with the         *)
(* presence flag true after a detection at time 0, no hand in view any     *)
(* more, and every detection cycle reporting none.  The browser runs a     *)
(* scheduled animation-frame callback, the clock advances and playback     *)
(* proceeds: weak fairness on each.  Display frames run as they may.       *)

NoHandCycle == DetectionCycle("nohand")

LostInit ==
    /\ appState = "RUNNING"
    /\ handLandmarkerRef = "loaded"
    /\ initMediapipe = "settled"
    /\ timers = 0
    /\ gumSpecific = 0
    /\ gumFallback = 0
    /\ video \in {"playing", "advanced"}
    /\ rafPending = 1
    /\ now \in {0, ClockStep}
    /\ lastDetectionTimeRef = 0
    /\ isHandDetectedRef = TRUE
    /\ isHandDetected = TRUE
    /\ hand = NoHand
    /\ lastCycle = "none"
    /\ lastTick = <<>>
    /\ facingModeRef \in {"user", "environment"}
    /\ aspect = SquareWindow
    /\ \E lm \in {ScenarioHand, CoincidentHand} :
          LET pose == RawPose(lm, facingModeRef = "user", aspect)
          IN  /\ handPositionRef = pose.position
              /\ handScaleRef = pose.scale
              /\ handRotationRef = pose.rotation
              /\ group \in {<<DefaultPose>>,
                            <<[position |-> pose.position, scale |-> pose.scale,
                               quaternion |-> pose.rotation, frames |-> 0]>>}

LostNext ==
    \/ NoHandCycle
    \/ AdvanceClock
    \/ VideoTimeAdvances
    \/ UseFrame

SpecLost ==
    /\ LostInit
    /\ [][LostNext]_vars
    /\ WF_vars(NoHandCycle)
    /\ WF_vars(AdvanceClock)
    /\ WF_vars(VideoTimeAdvances)

---------------------------------------------------------------------------
(* Properties *)

isMirrored == facingModeRef = "user"

DistSq(a, b) == Dot(SubVectors(a, b), SubVectors(a, b))

PairwiseDistinct(lm) ==
    Cardinality({lm.wrist, lm.middleFingerMCP, lm.indexFingerMCP,
                 lm.pinkyFingerMCP}) = 4

\* The four landmarks coincide, or a vector the basis is built from
\* (wrist -> middle knuckle, index -> pinky knuckle) has length zero.
Degenerate(lm) ==
    \/ lm.wrist = lm.middleFingerMCP
    \/ lm.indexFingerMCP = lm.pinkyFingerMCP

Orthonormal(o) ==
    /\ IsUnit(o.targetX) /\ IsUnit(o.targetY) /\ IsUnit(o.targetZ)
    /\ Dot(o.targetX, o.targetY) = 0
    /\ Dot(o.targetY, o.targetZ) = 0
    /\ Dot(o.targetX, o.targetZ) = 0

\* C1: the presence flag (the ref and the React state) goes from true to
\* false only in a detection cycle that found no hand, more than 50 ms after
\* the last positive detection; so a no-hand cycle at 50 ms or less leaves it
\* true.
C1_DropOnlyAfterHysteresis ==
    [][ /\ (isHandDetectedRef /\ ~isHandDetectedRef')
            => (lastCycle' = "nohand" /\ now' - lastDetectionTimeRef > HysteresisMs)
        /\ (isHandDetected /\ ~isHandDetected')
            => (lastCycle' = "nohand" /\ now' - lastDetectionTimeRef > HysteresisMs)
      ]_vars

\* A no-hand cycle exactly 50 ms after a positive detection has left the flag true.
C1_Witness ==
    /\ lastCycle = "nohand"
    /\ isHandDetectedRef
    /\ handPositionRef # ZeroVec
    /\ now - lastDetectionTimeRef = HysteresisMs

\* C2: a detection cycle that found a hand ends with the timestamp at the
\* current time and the presence flag true.
C2_RisingEdgeImmediate ==
    lastCycle = "hand" =>
        /\ lastDetectionTimeRef = now
        /\ isHandDetectedRef
        /\ isHandDetected

\* A hand found later than the hysteresis window after the previous detection.
C2_Witness ==
    /\ lastCycle = "hand"
    /\ now > HysteresisMs
    /\ isHandDetectedRef

\* C3: at most one predictWebcam callback is scheduled at any time.
C3_SingleLoop == rafPending <= 1

\* C4: a cycle in which the detector throws acts as a no-hand cycle: the flag
\* is false afterwards if more than 50 ms have passed since the last positive
\* detection, and the next callback is scheduled.
C4_ThrowIsNoHand ==
    lastCycle = "throw" =>
        /\ isHandDetectedRef => now - lastDetectionTimeRef <= HysteresisMs
        /\ rafPending >= 1

\* C5: a detection cycle that returns a degenerate landmark set leaves the
\* raw position, scale and orientation targets as they were.
C5_DegenerateKeepsRawPose ==
    [][ (lastCycle' = "hand" /\ hand # NoHand /\ Degenerate(hand[1]))
            => UNCHANGED <<handPositionRef, handScaleRef, handRotationRef>>
      ]_vars

\* C6: once created, the group holding the SmoothedPose is never destroyed.
C6_NeverDestroyed == [][group # <<>> => group' # <<>>]_vars

\* C7: for every landmark set whose four key landmarks are pairwise
\* distinct, the forward vector is not zero and the basis is orthonormal.
C7_BasisOrthonormal ==
    (lastCycle = "hand" /\ PairwiseDistinct(hand[1])) =>
        LET o == Orientation(hand[1], isMirrored, aspect)
        IN  IsUnit(o.flatForward) /\ Orthonormal(o)

\* C8 as stated: the raw scale is non-negative, and zero only when wrist and
\* middle knuckle are the same point in x, y and z.
C8_ZeroOnlyWhenSamePoint ==
    lastCycle = "hand" =>
        /\ handScaleRef.x >= 0
        /\ handScaleRef.x = 0 => hand[1].wrist = hand[1].middleFingerMCP

\* C8 amended: the raw scale is non-negative, and zero exactly when wrist
\* and middle knuckle agree in x and y; z plays no part.
C8_ZeroIffSameImagePoint ==
    lastCycle = "hand" =>
        /\ handScaleRef.x >= 0
        /\ handScaleRef.x = 0 <=>
              (/\ hand[1].wrist.x = hand[1].middleFingerMCP.x
               /\ hand[1].wrist.y = hand[1].middleFingerMCP.y)

\* Scale zero for two landmarks that differ (in z only).
C8_Witness ==
    /\ lastCycle = "hand"
    /\ handScaleRef.x = 0
    /\ hand[1].wrist # hand[1].middleFingerMCP

\* The gap closed by one blend step is rounded away: |b - a| * pct / 100 <= 1/2.
StepLost(a, b, pct) == 2 * Abs(b - a) * pct <= 100

AllStepsLost(v, target, pct) ==
    /\ StepLost(v.x, target.x, pct)
    /\ StepLost(v.y, target.y, pct)
    /\ StepLost(v.z, target.z, pct)

\* C9 as stated: with the target unchanged, after each display frame the
\* distance of the smoothed position and scale to the target is no larger,
\* is strictly smaller whenever it was not zero, and a value on the target
\* stays there.
C9_StrictlyCloser ==
    lastTick # <<>> =>
        LET before == lastTick[1]
            after == group[1]
        IN  /\ DistSq(after.position, handPositionRef)
                  <= DistSq(before.position, handPositionRef)
            /\ DistSq(after.scale, handScaleRef) <= DistSq(before.scale, handScaleRef)
            /\ before.position # handPositionRef
                  => DistSq(after.position, handPositionRef)
                         < DistSq(before.position, handPositionRef)
            /\ before.scale # handScaleRef
                  => DistSq(after.scale, handScaleRef) < DistSq(before.scale, handScaleRef)
            /\ before.position = handPositionRef => after.position = handPositionRef
            /\ before.scale = handScaleRef => after.scale = handScaleRef

\* C9 amended: the distance is no larger after the frame; it is strictly
\* smaller whenever the blend step of some component is not rounded away,
\* and otherwise the value is left as it is (on the target or short of it).
C9_CloserUnlessRoundedAway ==
    lastTick # <<>> =>
        LET before == lastTick[1]
            after == group[1]
        IN  /\ DistSq(after.position, handPositionRef)
                  <= DistSq(before.position, handPositionRef)
            /\ DistSq(after.scale, handScaleRef) <= DistSq(before.scale, handScaleRef)
            /\ IF AllStepsLost(before.position, handPositionRef, positionLerp)
               THEN after.position = before.position
               ELSE DistSq(after.position, handPositionRef)
                        < DistSq(before.position, handPositionRef)
            /\ IF AllStepsLost(before.scale, handScaleRef, scaleLerp)
               THEN after.scale = before.scale
               ELSE DistSq(after.scale, handScaleRef) < DistSq(before.scale, handScaleRef)

\* A frame that moved the position closer while the scale, short of its
\* target, stayed put.
C9_Witness ==
    /\ lastTick # <<>>
    /\ DistSq(group[1].position, handPositionRef)
           < DistSq(lastTick[1].position, handPositionRef)
    /\ group[1].scale = lastTick[1].scale
    /\ group[1].scale # handScaleRef

\* The scenario has just been processed: unmirrored, aspect 1.
ScenarioDone ==
    /\ lastCycle = "hand"
    /\ hand = <<ScenarioHand>>
    /\ facingModeRef = "environment"
    /\ aspect = SquareWindow

\* C10 as stated: the scenario yields raw scale about 1.34 (0.1118 x 12),
\* horizontal position 0, the palm-normal fallback, and forward along +Z.
C10_ScenarioScale134 ==
    ScenarioDone =>
        LET o == Orientation(hand[1], isMirrored, aspect)
        IN  /\ Abs(handScaleRef.x - 1342) <= 50
            /\ handPositionRef.x = 0
            /\ o.fallback
            /\ o.flatForward = Vec(0, 0, 1)

\* C10 amended: the raw scale is 0.1 x 12 = 1.2 (the distance is taken in
\* the image plane); the rest as stated.
C10_ScenarioScale120 ==
    ScenarioDone =>
        LET o == Orientation(hand[1], isMirrored, aspect)
        IN  /\ handScaleRef = Vec(1200, 1200, 1200)
            /\ handPositionRef.x = 0
            /\ o.fallback
            /\ o.flatForward = Vec(0, 0, 1)
            /\ o.targetZ = Vec(0, 0, 1)

C10_Witness == ScenarioDone /\ handScaleRef.x = 1200

\* C11: in a hand-lost period (the flag true, every cycle from here on
\* reporting no hand) a no-hand cycle later than 50 ms after the last
\* detection leaves the flag false, the flag never goes back to true without
\* a cycle that found a hand, and the flag does become false.
C11_FlagDropsAndStaysDown ==
    /\ []((lastCycle = "nohand" /\ now - lastDetectionTimeRef > HysteresisMs)
             => (~isHandDetectedRef /\ ~isHandDetected))
    /\ [][(~isHandDetectedRef /\ isHandDetectedRef') => lastCycle' = "hand"]_vars
    /\ (isHandDetectedRef ~> (~isHandDetectedRef /\ ~isHandDetected))

\* The flag dropped in a no-hand cycle past the hysteresis window.
C11_Witness ==
    /\ lastCycle = "nohand"
    /\ now - lastDetectionTimeRef > HysteresisMs
    /\ ~isHandDetectedRef

\* No detection cycle has produced a raw pose: the three refs are as
\* constructed (any raw pose has z = PlacementDepth).
NoRawPoseYet ==
    /\ handPositionRef = ZeroVec
    /\ handScaleRef = Vec(Unit, Unit, Unit)
    /\ handRotationRef = IdentityQuat

AtDefault(g) ==
    /\ g.position = ZeroVec
    /\ g.scale = Vec(Unit, Unit, Unit)
    /\ g.quaternion = IdentityQuat

\* C12: the raw pose changes only in a detection cycle that found a hand,
\* such a cycle leaves it different from the constructed refs, and as long
\* as no raw pose was produced the mounted group is at its default, however
\* many display frames have run.
C12_DefaultUntilFirstRawPose ==
    /\ [][(<<handPositionRef, handScaleRef, handRotationRef>>'
              # <<handPositionRef, handScaleRef, handRotationRef>>)
            => lastCycle' = "hand"]_vars
    /\ [](lastCycle = "hand" => ~NoRawPoseYet)
    /\ []((NoRawPoseYet /\ group # <<>>) => AtDefault(group[1]))

\* A display frame has run on the mounted group before any raw pose.
C12_Witness ==
    /\ NoRawPoseYet
    /\ lastTick # <<>>
    /\ group # <<>>
    /\ group[1].frames > 0

\* C13: a predictWebcam invocation that finds the landmarker schedules
\* exactly one callback (a callback that ran is replaced by one; the direct
\* call of the 'playing' handler, the step in which the video changes stage,
\* adds one), whatever the detector did; and when the video has no
\* dimensions or its timeline has not advanced the invocation is a skip that
\* changes none of the presence flag, the timestamp and the raw pose.
C13_SkipKeepsStateAndRetries ==
    [][ (lastCycle' # "none" /\ handLandmarkerRef = "loaded") =>
          /\ rafPending' = rafPending + (IF video' # video THEN 1 ELSE 0)
          /\ video' # "advanced" =>
                /\ lastCycle' \in {"nodims", "stale"}
                /\ UNCHANGED <<isHandDetectedRef, isHandDetected,
                               lastDetectionTimeRef, handPositionRef,
                               handScaleRef, handRotationRef>>
      ]_vars

\* A tick was skipped for want of video dimensions while the flag was true,
\* a hand was in view, and one callback is scheduled.
C13_Witness ==
    /\ lastCycle = "nodims"
    /\ isHandDetectedRef
    /\ hand # NoHand
    /\ rafPending = 1

\* C14: a detection cycle that reports no hand leaves the raw position,
\* scale and orientation and the last-detection timestamp as they were; and
\* a display frame that runs while the presence flag is false still blends
\* toward the raw pose: position and scale end no farther from it, and
\* strictly closer unless the blend step is rounded away.
C14_NoHandKeepsTargetAndBlending ==
    /\ [][lastCycle' = "nohand"
            => UNCHANGED <<handPositionRef, handScaleRef, handRotationRef,
                           lastDetectionTimeRef>>]_vars
    /\ []((lastTick # <<>> /\ ~isHandDetectedRef) =>
            LET before == lastTick[1]
                after == group[1]
            IN  /\ IF AllStepsLost(before.position, handPositionRef, positionLerp)
                   THEN after.position = before.position
                   ELSE DistSq(after.position, handPositionRef)
                            < DistSq(before.position, handPositionRef)
                /\ IF AllStepsLost(before.scale, handScaleRef, scaleLerp)
                   THEN after.scale = before.scale
                   ELSE DistSq(after.scale, handScaleRef)
                            < DistSq(before.scale, handScaleRef))

\* After a detection the hand was lost (flag false again), and a display
\* frame then moved the group toward the raw pose left behind.
C14_Witness ==
    /\ ~isHandDetectedRef
    /\ ~NoRawPoseYet
    /\ lastTick # <<>>
    /\ DistSq(group[1].position, handPositionRef)
           < DistSq(lastTick[1].position, handPositionRef)

\* C15: whenever appState is RUNNING the landmarker is loaded and a
\* detection callback is scheduled.
C15_RunningHasLandmarker ==
    appState = "RUNNING" => (handLandmarkerRef = "loaded" /\ rafPending >= 1)

====
